---- MODULE Spec2Model ----
(***************************************************************************)
(* Model of yandex_bank_api: the ledger (application/service.rs,           *)
(* data/memory.rs, domain/models.rs) and the authentication core: the      *)
(* credential hasher and token codec (infrastructure/security.rs), the     *)
(* in-memory user                                                          *)
(* store (data/user_repository.rs), the auth service                       *)
(* (application/auth_service.rs), the HTTP error mapping                   *)
(* (presentation/handlers.rs, presentation/auth.rs) and the JWT gate       *)
(* (presentation/middleware.rs).                                           *)
(*                                                                         *)
(* The specifications share the variables:                                 *)
(*   Spec          - request tasks calling register_user / login /         *)
(*                   get_token concurrently; register_user is two lock     *)
(*                   acquisitions.                                         *)
(*   SpecGate      - requests passing through                              *)
(*                   JwtAuthMiddlewareService::call.                       *)
(*   SpecToken     - generate_token / validate_token on drawn inputs.      *)
(*   SpecIssue     - the issuing paths of login and get_token on drawn     *)
(*                   users and secrets.                                    *)
(*   SpecStateless - requests through the gate interleaved with the auth   *)
(*                   service.                                              *)
(*   SpecHasher    - hash_password / verify_password (and login on top)    *)
(*                   on drawn passwords and stored strings.                *)
(*   SpecFailure   - service failures mapped to HTTP responses.            *)
(*   SpecRepo      - InMemoryUserRepository called directly.               *)
(*   SpecStore     - InMemoryAccountRepository behind its RwLock, records  *)
(*                   written and copied field by field.                    *)
(*   SpecLedger    - the operations of BankService                         *)
(*                   (application/service.rs) run one after another.       *)
(*   SpecBank      - deposit, withdraw and transfer run by concurrent      *)
(*                   request tasks.                                        *)
(***************************************************************************)
EXTENDS Integers, Sequences, FiniteSets, TLC

----------------------------------------------------------------------------
\* Bounds of the model.
MaxProcs == 2      \* concurrent request tasks
MaxUsers == 2      \* registrations admitted (stored or in flight)
MaxSecs == 1       \* seconds the service clock advances in Spec
MaxHours == 1      \* token lifetimes the clock spans in SpecGate / SpecToken
MaxAmount == 3     \* u64::MAX of Amount(u64), scaled: balances wrap modulo MaxAmount + 1
MaxOps == 2        \* bank operations started in SpecLedger / SpecBank

\* Program constants.
ARGON2_M_COST == 19456
ARGON2_T_COST == 2
ARGON2_P_COST == 1
TokenTtl == 3600
Leeway == 60

Procs == 1..MaxProcs
\* The uuids a request can name or Uuid::new_v4 can draw (numbered), one more
\* than the store admits, so that some id is always unknown to the store.
UserIds == 1..(MaxUsers + 1)
\* Values SaltString::generate can draw (numbered), as many as the store
\* admits users.
Salts == 1..MaxUsers
Emails == {"a@x.com", "b@x.com"}
Passwords == {"pw", "wrong"}

\* Secrets are byte strings; 0 is the NUL byte. <<1>> and <<1, 0>> are the
\* distinct strings "k" and "k\0".
Secrets == {<<1>>, <<1, 0>>, <<2>>}

\* Secrets the server can be configured with: JWT_SECRET is read from the
\* environment, which holds no NUL byte.
ConfiguredSecrets == {s \in Secrets : \A i \in 1..Len(s) : s[i] # 0}

\* Instants of the clock (epoch seconds relative to an arbitrary base).
Instants ==
    {0, 1} \cup {h * TokenTtl + l * Leeway + s : h \in 1..MaxHours, l \in 0..1, s \in 0..1}

None == [some |-> FALSE]
Some(v) == [some |-> TRUE, val |-> v]

\* The values fastrand::u32(..) can return and a request can name (scaled).
AccountIds == {1, 2, 3}
\* The values of Amount(u64).
Amounts == 0..MaxAmount
\* The amounts a request carries and an opened account holds in the
\* specifications of the ledger: nothing, one unit, everything.
SampleAmounts == {0, 1, MaxAmount}
AccountNames == {"acct"}

----------------------------------------------------------------------------
\* domain/error.rs, presentation/handlers.rs

\* DomainError variants carrying a message; Display prefixes the variant.
DomainError(kind, msg) == [kind |-> kind, msg |-> msg]

\* impl From<anyhow::Error> for BankError: downcast to DomainError and map.
BankError_from(err) ==
    CASE err.kind = "InsufficientFunds" -> [kind |-> "InsufficientFunds", msg |-> "Insufficient funds"]
      [] err.kind = "AccountNotFound" -> [kind |-> "NotFound", msg |-> "Account not found"]
      [] err.kind = "InvalidAmount" -> [kind |-> "Validation", msg |-> "Invalid amount"]
      [] err.kind = "Validation" -> [kind |-> "Validation", msg |-> err.msg]
      [] err.kind = "NotFound" -> [kind |-> "NotFound", msg |-> err.msg]
      [] err.kind = "Unauthorized" -> [kind |-> "Unauthorized", msg |-> err.msg]
      [] err.kind = "Internal" -> [kind |-> "Internal", msg |-> err.msg]
      [] OTHER -> [kind |-> "Database", msg |-> err.msg]

\* Mutant of status_code: NotFound is answered as a bad request.
status_code_not_found_400(bank_error) ==
    CASE bank_error.kind = "Validation" -> 400
      [] bank_error.kind = "NotFound" -> 400
      [] bank_error.kind = "InsufficientFunds" -> 400
      [] bank_error.kind = "Unauthorized" -> 401
      [] bank_error.kind = "Database" -> 500
      [] bank_error.kind = "Internal" -> 500

\* BankError::status_code
status_code(bank_error) ==
    CASE bank_error.kind = "Validation" -> 400
      [] bank_error.kind = "NotFound" -> 404
      [] bank_error.kind = "InsufficientFunds" -> 400
      [] bank_error.kind = "Unauthorized" -> 401
      [] bank_error.kind = "Database" -> 500
      [] bank_error.kind = "Internal" -> 500

\* BankError::error_response: status and the details.message of the body.
error_response(bank_error) ==
    [status |-> status_code(bank_error), kind |-> bank_error.kind, message |-> bank_error.msg]

----------------------------------------------------------------------------
\* infrastructure/security.rs: credential hasher

\* The Argon2 digest: a function of password, salt, algorithm and cost
\* parameters, taken as collision free.
Argon2(alg, m, t, p, password, salt) ==
    [alg |-> alg, m |-> m, t |-> t, p |-> p, password |-> password, salt |-> salt]

\* SaltString::generate(&mut OsRng): 16 random bytes. A salt drawn before is
\* not drawn again (a repeat has probability 2^-128 and is left out, as a
\* collision of the digest is). Salts are opaque and only compared, so the
\* least unused one stands for whichever was drawn.
SaltString_generate(used) ==
    CHOOSE salt \in Salts \ used : \A other \in Salts \ used : salt <= other

\* Mutant of hash_password: the salt is a constant, not the one drawn.
hash_password_fixed_salt(password, salt) ==
    [alg |-> "argon2id", m |-> ARGON2_M_COST, t |-> ARGON2_T_COST, p |-> ARGON2_P_COST,
     salt |-> 0,
     digest |-> Argon2("argon2id", ARGON2_M_COST, ARGON2_T_COST, ARGON2_P_COST, password, 0)]

\* hash_password with the salt SaltString::generate drew; the result is the
\* PHC string $argon2id$v=19$m=..,t=..,p=..$salt$digest, kept as its fields.
hash_password(password, salt) ==
    [alg |-> "argon2id", m |-> ARGON2_M_COST, t |-> ARGON2_T_COST, p |-> ARGON2_P_COST,
     salt |-> salt,
     digest |-> Argon2("argon2id", ARGON2_M_COST, ARGON2_T_COST, ARGON2_P_COST, password, salt)]

PhcFields == {"alg", "m", "t", "p", "salt", "digest"}

\* Mutant of verify_password: any hash that parses verifies.
verify_password_any(password, hash) ==
    IF DOMAIN hash # PhcFields
    THEN [ok |-> FALSE, val |-> FALSE]
    ELSE [ok |-> TRUE, val |-> TRUE]

\* verify_password: Err when PasswordHash::new cannot parse the string;
\* otherwise every failure of argon2.verify_password (a wrong digest, an
\* algorithm the verifier does not know) is Ok(false).
verify_password(password, hash) ==
    IF DOMAIN hash # PhcFields
    THEN [ok |-> FALSE, val |-> FALSE]
    ELSE IF hash.alg \notin {"argon2d", "argon2i", "argon2id"}
    THEN [ok |-> TRUE, val |-> FALSE]
    ELSE [ok |-> TRUE,
          val |-> (Argon2(hash.alg, hash.m, hash.t, hash.p, password, hash.salt) = hash.digest)]

----------------------------------------------------------------------------
\* infrastructure/security.rs: token codec

RECURSIVE StripTrailingZeros(_)
StripTrailingZeros(s) ==
    IF Len(s) = 0 THEN s
    ELSE IF s[Len(s)] = 0 THEN StripTrailingZeros(SubSeq(s, 1, Len(s) - 1))
    ELSE s

\* EncodingKey::from_secret / DecodingKey::from_secret followed by HMAC's key
\* schedule: a key shorter than the hash block is padded with zero bytes to
\* the block length, so keys that differ only in trailing zero bytes give
\* the same padded key. (Every secret of the model is shorter than a block.)
HmacKey(secret) == StripTrailingZeros(secret)

\* HMAC-SHA256 over header.payload, taken as collision free in (key, message).
Sign(secret, header, claims) == [key |-> HmacKey(secret), msg |-> <<header, claims>>]

\* jsonwebtoken::encode: the three segments header.payload.signature.
encode(header, claims, secret) == <<header, claims, Sign(secret, header, claims)>>

\* Mutant of generate_token: the claims carry the minute, not the second.
generate_token_by_minute(user_id, secret, clock) ==
    encode([alg |-> "HS256"],
           [sub |-> user_id, exp |-> (clock - (clock % 60)) + TokenTtl, iat |-> clock - (clock % 60)],
           secret)

\* generate_token at clock reading `clock`.
generate_token(user_id, secret, clock) ==
    encode([alg |-> "HS256"],
           [sub |-> user_id, exp |-> clock + TokenTtl, iat |-> clock],
           secret)

TokenErr(kind) == [ok |-> FALSE, err |-> kind]
TokenOk(sub) == [ok |-> TRUE, sub |-> sub]

\* Mutant of validate_token: the signature is not verified.
validate_token_unverified(token, secret, clock) ==
    IF Len(token) # 3 THEN TokenErr("InvalidToken")
    ELSE IF DOMAIN token[1] # {"alg"} THEN TokenErr("Base64")
    ELSE IF token[1].alg # "HS256" THEN TokenErr("InvalidAlgorithm")
    ELSE IF DOMAIN token[2] # {"sub", "exp", "iat"} THEN TokenErr("Json")
    ELSE IF token[2].exp < clock - Leeway THEN TokenErr("ExpiredSignature")
    ELSE TokenOk(token[2].sub)

\* Mutant of validate_token: expiry is checked without the leeway.
validate_token_no_leeway(token, secret, clock) ==
    IF Len(token) # 3 THEN TokenErr("InvalidToken")
    ELSE IF DOMAIN token[1] # {"alg"} THEN TokenErr("Base64")
    ELSE IF token[1].alg # "HS256" THEN TokenErr("InvalidAlgorithm")
    ELSE IF token[3] # Sign(secret, token[1], token[2]) THEN TokenErr("InvalidSignature")
    ELSE IF DOMAIN token[2] # {"sub", "exp", "iat"} THEN TokenErr("Json")
    ELSE IF token[2].exp < clock THEN TokenErr("ExpiredSignature")
    ELSE TokenOk(token[2].sub)

\* validate_token at clock reading `clock`: jsonwebtoken::decode with
\* Validation::new(HS256) and leeway 60.
validate_token(token, secret, clock) ==
    IF Len(token) # 3 THEN TokenErr("InvalidToken")
    ELSE IF DOMAIN token[1] # {"alg"} THEN TokenErr("Base64")
    ELSE IF token[1].alg # "HS256" THEN TokenErr("InvalidAlgorithm")
    ELSE IF token[3] # Sign(secret, token[1], token[2]) THEN TokenErr("InvalidSignature")
    ELSE IF DOMAIN token[2] # {"sub", "exp", "iat"} THEN TokenErr("Json")
    ELSE IF token[2].exp < clock - Leeway THEN TokenErr("ExpiredSignature")
    ELSE TokenOk(token[2].sub)

----------------------------------------------------------------------------
\* data/user_repository.rs: the map behind the RwLock, id -> User

\* Mutant of save_user: a record is inserted only under an id that has none.
save_user_keep_first(st, user) ==
    [i \in DOMAIN st \cup {user.id} |-> IF i \in DOMAIN st THEN st[i] ELSE user]

\* save_user: HashMap::insert under the write lock.
save_user(st, user) ==
    [i \in DOMAIN st \cup {user.id} |-> IF i = user.id THEN user ELSE st[i]]

\* find_user_by_email: storage.values().find(..); HashMap iteration order is
\* unspecified, so any stored user with that email can be the one returned.
\* The set of values the call can return.
find_user_by_email(st, email) ==
    IF \E i \in DOMAIN st : st[i].email = email
    THEN {Some(st[i]) : i \in {j \in DOMAIN st : st[j].email = email}}
    ELSE {None}

\* find_user_by_id: storage.get(id)
find_user_by_id(st, id) ==
    IF id \in DOMAIN st THEN Some(st[id]) ELSE None

----------------------------------------------------------------------------
VARIABLES
    jwt_secret,  \* the configured signing secret (AuthService.jwt_secret, JwtAuthMiddleware.jwt_secret)
    now,         \* SystemTime::now() in seconds
    storage,     \* InMemoryUserRepository.storage: id -> User
    pc,          \* per request task: "idle", or "reg_save" between the two lock acquisitions of register_user
    pending,     \* per request task: the CreateUser a register_user in flight holds
    last,        \* the call of the auth service that completed last: request, lookup result, result
    reg_log,     \* history: (email, password, id) of every register_user that returned Ok(user)
    gate,        \* the request the middleware handled last and what became of it
    prev_rejection, \* history: the (cause, status, error) of the latest earlier rejection of a token
    tok,         \* SpecToken: the token generate_token produced last, with its inputs
    vres,        \* SpecToken: the last validate_token applied to tok, with its inputs
    issues,      \* SpecIssue: the last two issuances through login / get_token, with their inputs
    probe,       \* SpecStateless: the first request the middleware handled, with the clock and the user ids stored then
    hashed,      \* SpecHasher: the last hash_password call, its password and result
    verified,    \* SpecHasher: the last verify_password call: password, hash, the password hashed (if any), result, and what login returns for them
    failure,     \* SpecFailure: the last failure of a service operation and the response it became
    repo_last,   \* SpecRepo: the last save_user call: the user saved, the record its id had before, the result
    repo_found,  \* SpecRepo: the last find_user_by_id / find_user_by_email call since then and what it returned
    account_storage, \* SpecLedger / SpecBank: InMemoryAccountRepository.storage: id -> Account
    bank_pc, \* SpecLedger / SpecBank: per request task, the BankService operation in flight, its position and the accounts it holds
    ledger, \* SpecLedger / SpecBank: history: per account the amounts deposited, withdrawn and transferred by operations that returned Ok
    bank_last, \* SpecLedger / SpecBank: the BankService operation that returned last: arguments, the store when it began, what it read, result
    cells, \* SpecStore: the HashMap of InMemoryAccountRepository, field by field: id -> the slot an insert is writing or has written
    rwlock, \* SpecStore: the RwLock around the HashMap: the task holding the write guard (0: none) and the tasks holding read guards
    store_pc, \* SpecStore: per task, the repository call in flight and its position
    store_log \* SpecStore: history: per id the account of the last save / update that returned

vars == <<jwt_secret, now, storage, pc, pending, last, reg_log, gate, prev_rejection, tok, vres, issues, probe, hashed, verified, failure, repo_last, repo_found, account_storage, bank_pc, ledger, bank_last, cells, rwlock, store_pc, store_log>>

NoCreateUser == [email |-> "", password |-> ""]
NoResult == [tag |-> "none"]
OkUser(user) == [tag |-> "user", user |-> user]
OkToken(token) == [tag |-> "token", token |-> token]
Err(e) == [tag |-> "err", err |-> e]

\* A request task of the bank service that is not inside an operation.
IdleTask == [op |-> "idle", at |-> "idle", id |-> 0, to |-> 0, amount |-> 0,
             from_account |-> None, to_account |-> None, to_balance |-> 0,
             before |-> << >>]
NoLedger == [opening |-> [i \in AccountIds |-> 0],
             deposits |-> [i \in AccountIds |-> 0],
             withdrawals |-> [i \in AccountIds |-> 0],
             transfers_in |-> [i \in AccountIds |-> 0], transfers_out |-> [i \in AccountIds |-> 0],
             ops |-> 0, kinds |-> {}, overflowed |-> FALSE, replaced |-> FALSE]
NoBankCall == [op |-> "none", id |-> 0, to |-> 0, amount |-> 0, before |-> << >>,
               read |-> None, read_to |-> None, result |-> NoResult]

\* The keys and the accounts the callers of the repository pass in SpecStore:
\* two versions of each account that differ in every field but the id.
StoreKeys == {1, 2}
StoreAccounts ==
    {[id |-> id, name |-> "a", balance |-> 1] : id \in StoreKeys}
        \cup {[id |-> id, name |-> "b", balance |-> 2] : id \in StoreKeys}
\* A field of a slot that an insert has not written yet.
Unwritten == -1
\* A task that is not inside a repository call.
NoStoreTask == [op |-> "idle", at |-> "idle", id |-> 0, account |-> None, name |-> "",
                result |-> None, before |-> None, during |-> {}]

NoCall == [op |-> "none", email |-> "", password |-> "", user_id |-> 0,
           found |-> None, registered |-> {}, result |-> NoResult]

\* The auth side after construction.
InitAuth ==
    /\ jwt_secret \in ConfiguredSecrets
    /\ now = 0
    /\ storage = << >>
    /\ pc = [p \in Procs |-> "idle"]
    /\ pending = [p \in Procs |-> NoCreateUser]
    /\ last = NoCall
    /\ reg_log = {}
    /\ gate = [seen |-> FALSE, path |-> << >>, header |-> None,
               outcome |-> [invoked |-> FALSE, validated |-> FALSE, auth_user |-> None,
                            status |-> 401, error |-> ""]]
    /\ prev_rejection = None
    /\ tok = [issued |-> FALSE, sub |-> 0, secret |-> << >>, iat |-> 0, token |-> << >>]
    /\ vres = [done |-> FALSE, secret |-> << >>, at |-> 0, result |-> [ok |-> FALSE, err |-> ""]]
    /\ issues = << >>
    /\ probe = None
    /\ hashed = [done |-> FALSE, password |-> "", hash |-> None]
    /\ verified = [done |-> FALSE, password |-> "", hash |-> None, of |-> None, result |-> [ok |-> FALSE, val |-> FALSE], login |-> NoResult]
    /\ failure = None
    /\ repo_last = [op |-> "none", user |-> None, before |-> None, result |-> ""]
    /\ repo_found = [op |-> "none", id |-> 0, email |-> "", result |-> None]

\* The ledger: the stores the service can hold once accounts 1 and 2 were
\* opened and funded (every balance of Amount is reachable by deposits);
\* account 3 is not yet drawn.
FundedStores ==
    {[i \in {1, 2} |-> [id |-> i, name |-> "acct", balance |-> b[i]]] : b \in [{1, 2} -> SampleAmounts]}

\* The books opened on a store: nothing moved yet.
Opened(st) ==
    [NoLedger EXCEPT !.opening = [i \in AccountIds |-> IF i \in DOMAIN st THEN st[i].balance ELSE 0]]

\* The account repository after construction, seen through its lock: an
\* empty map, the lock free, no call in flight.
InitStore ==
    /\ cells = << >>
    /\ rwlock = [writer |-> 0, readers |-> {}]
    /\ store_pc = [p \in Procs |-> NoStoreTask]
    /\ store_log = [committed |-> [id \in StoreKeys |-> None]]

\* The state after construction: AppState::new, no user, no account.
Init ==
    /\ InitAuth
    /\ InitStore
    /\ account_storage = << >>
    /\ bank_pc = [p \in Procs |-> IdleTask]
    /\ ledger = NoLedger
    /\ bank_last = NoBankCall

\* The state with accounts 1 and 2 opened, one unit deposited to each, and no
\* operation in flight.
InitOpened ==
    /\ InitAuth
    /\ InitStore
    /\ account_storage = [i \in {1, 2} |-> [id |-> i, name |-> "acct", balance |-> 1]]
    /\ bank_pc = [p \in Procs |-> IdleTask]
    /\ ledger = Opened(account_storage)
    /\ bank_last = NoBankCall

\* The state with accounts 1 and 2 opened and funded and no operation in
\* flight.
InitFunded ==
    /\ InitAuth
    /\ InitStore
    /\ account_storage \in FundedStores
    /\ bank_pc = [p \in Procs |-> IdleTask]
    /\ ledger = Opened(account_storage)
    /\ bank_last = NoBankCall

----------------------------------------------------------------------------
\* application/auth_service.rs

\* Mutant of register_user_check: the uniqueness check is skipped.
register_user_check_skipped(found) == NoResult

\* register_user, lines 27-38: the uniqueness check on what
\* find_user_by_email returned.
register_user_check(found) ==
    IF found.some
    THEN Err(DomainError("Validation", "User with this email already exists"))
    ELSE NoResult

\* Mutant of new_v4: the same id every time.
new_v4_constant(used) == 1

\* Uuid::new_v4: an id no stored user has. Ids are opaque and only compared,
\* so the least unused one stands for whichever fresh id was drawn.
new_v4(used) == CHOOSE id \in UserIds \ used : \A other \in UserIds \ used : id <= other

\* register_user, lines 40-51: hash the password and build the User under a
\* fresh uuid.
register_user_build(id, email, password, salt) ==
    [id |-> id, email |-> email, password_hash |-> hash_password(password, salt)]

\* Mutant of login_result: an unknown email is reported as such.
login_result_leaky(found, password, secret, clock) ==
    IF ~found.some
    THEN Err(DomainError("NotFound", "User not found"))
    ELSE LET is_valid == verify_password(password, found.val.password_hash) IN
         IF ~is_valid.ok
         THEN Err(DomainError("Internal", "Failed to verify password"))
         ELSE IF ~is_valid.val
         THEN Err(DomainError("Unauthorized", "Invalid email or password"))
         ELSE OkToken(generate_token(found.val.id, secret, clock))

\* login, lines 69-101, on what find_user_by_email returned.
login_result(found, password, secret, clock) ==
    IF ~found.some
    THEN Err(DomainError("Unauthorized", "Invalid email or password"))
    ELSE LET is_valid == verify_password(password, found.val.password_hash) IN
         IF ~is_valid.ok
         THEN Err(DomainError("Internal", "Failed to verify password"))
         ELSE IF ~is_valid.val
         THEN Err(DomainError("Unauthorized", "Invalid email or password"))
         ELSE OkToken(generate_token(found.val.id, secret, clock))

\* Mutant of get_token_result: a token is issued without the existence check.
get_token_result_unchecked(found, secret, clock) ==
    OkToken(generate_token(IF found.some THEN found.val.id ELSE 0, secret, clock))

\* get_token, lines 108-130, on what find_user_by_id returned.
get_token_result(found, secret, clock) ==
    IF ~found.some
    THEN Err(DomainError("NotFound", "User not found"))
    ELSE OkToken(generate_token(found.val.id, secret, clock))

\* presentation/auth.rs: the HTTP response of the register / login /
\* get_token handlers for a service result.
handler_response(result) ==
    CASE result.tag = "user" ->
            [status |-> 201, kind |-> "RegisterResponse", message |-> ""]
      [] result.tag = "token" ->
            [status |-> 200, kind |-> "TokenResponse", message |-> ""]
      [] result.tag = "err" -> error_response(BankError_from(result.err))

\* Registrations the model still admits (the store is unbounded in the code).
Admits == Cardinality(DOMAIN storage) + Cardinality({q \in Procs : pc[q] = "reg_save"}) < MaxUsers

\* register_user up to its first await on the repository: find_user_by_email
\* under the read lock, then either the Validation error or on to hashing.
register_user_find(p, email, password) ==
    /\ pc[p] = "idle"
    /\ \E found \in find_user_by_email(storage, email) :
          LET r == register_user_check(found) IN
          IF r.tag = "err"
          THEN /\ last' = [op |-> "register", email |-> email, password |-> password,
                           user_id |-> 0, found |-> found, registered |-> {},
                           result |-> r]
               /\ UNCHANGED <<pc, pending>>
          ELSE /\ Admits
               /\ pc' = [pc EXCEPT ![p] = "reg_save"]
               /\ pending' = [pending EXCEPT ![p] = [email |-> email, password |-> password]]
               /\ UNCHANGED last
    /\ UNCHANGED <<jwt_secret, now, storage, reg_log, gate, prev_rejection, tok, vres, issues, probe, hashed, verified, failure, repo_last, repo_found, account_storage, bank_pc, ledger, bank_last, cells, rwlock, store_pc, store_log>>

\* register_user from hash_password to its return: the salt and the uuid are
\* drawn, the user is saved under the write lock and returned.
register_user_save(p) ==
    /\ pc[p] = "reg_save"
    /\ LET salt == SaltString_generate({storage[i].password_hash.salt : i \in DOMAIN storage})
              id == new_v4(DOMAIN storage)
              user == register_user_build(id, pending[p].email, pending[p].password, salt)
       IN /\ storage' = save_user(storage, user)
          /\ last' = [op |-> "register", email |-> user.email, password |-> pending[p].password,
                      user_id |-> 0, found |-> None, registered |-> {},
                      result |-> OkUser(user)]
          /\ reg_log' = reg_log \cup {[email |-> user.email, password |-> pending[p].password,
                                       id |-> user.id]}
    /\ pc' = [pc EXCEPT ![p] = "idle"]
    /\ pending' = [pending EXCEPT ![p] = NoCreateUser]
    /\ UNCHANGED <<jwt_secret, now, gate, prev_rejection, tok, vres, issues, probe, hashed, verified, failure, repo_last, repo_found, account_storage, bank_pc, ledger, bank_last, cells, rwlock, store_pc, store_log>>

\* login: one read of the store, then verification and issuance.
login(email, password) ==
    /\ \E found \in find_user_by_email(storage, email) :
          last' = [op |-> "login", email |-> email, password |-> password, user_id |-> 0,
                   found |-> found,
                   registered |-> {r.id : r \in {x \in reg_log : x.email = email /\ x.password = password}},
                   result |-> login_result(found, password, jwt_secret, now)]
    /\ UNCHANGED <<jwt_secret, now, storage, pc, pending, reg_log, gate, prev_rejection, tok, vres, issues, probe, hashed, verified, failure, repo_last, repo_found, account_storage, bank_pc, ledger, bank_last, cells, rwlock, store_pc, store_log>>

\* get_token: one read of the store, then issuance.
get_token(user_id) ==
    /\ LET found == find_user_by_id(storage, user_id) IN
          last' = [op |-> "get_token", email |-> "", password |-> "", user_id |-> user_id,
                   found |-> found, registered |-> {},
                   result |-> get_token_result(found, jwt_secret, now)]
    /\ UNCHANGED <<jwt_secret, now, storage, pc, pending, reg_log, gate, prev_rejection, tok, vres, issues, probe, hashed, verified, failure, repo_last, repo_found, account_storage, bank_pc, ledger, bank_last, cells, rwlock, store_pc, store_log>>

\* The service clock moves on by a second.
TickSecond ==
    /\ now < MaxSecs
    /\ now' = now + 1
    /\ UNCHANGED <<jwt_secret, storage, pc, pending, last, reg_log, gate, prev_rejection, tok, vres, issues, probe, hashed, verified, failure, repo_last, repo_found, account_storage, bank_pc, ledger, bank_last, cells, rwlock, store_pc, store_log>>

Next ==
    \/ \E p \in Procs, email \in Emails, password \in Passwords : register_user_find(p, email, password)
    \/ \E p \in Procs : register_user_save(p)
    \/ \E email \in Emails, password \in Passwords : login(email, password)
    \/ \E user_id \in UserIds : get_token(user_id)
    \/ TickSecond

Spec == Init /\ [][Next]_vars

----------------------------------------------------------------------------
\* Claims about the auth service, checked under Spec.

EmailStored(email) == \E i \in DOMAIN storage : storage[i].email = email

InvalidCredentials == Err(DomainError("Unauthorized", "Invalid email or password"))

\* C1: in every reachable state of the user store no two stored users have
\* the same email, whatever the interleaving of register_user calls.
C1_EmailUnique ==
    \A i, j \in DOMAIN storage : storage[i].email = storage[j].email => i = j

\* C6: a login with an email and password that an earlier register_user
\* returned Ok(u) for succeeds, and its token validates under the service's
\* secret to u.id.
C6_RegisterThenLogin ==
    (last.op = "login" /\ last.registered # {}) =>
        /\ last.result.tag = "token"
        /\ \A id \in last.registered :
              validate_token(last.result.token, jwt_secret, now) = TokenOk(id)

\* The password the stored user `user` registered with differs from `password`.
WrongPasswordFor(user, password) ==
    \E r \in reg_log : r.id = user.id /\ r.password # password

\* C7: a login with an email no stored user has and a login that finds a user
\* who registered with another password fail with the same error, Unauthorized
\* "Invalid email or password" (HTTP 401), and neither returns a token.
C7_LoginFailuresIndistinguishable ==
    (/\ last.op = "login"
     /\ \/ ~last.found.some
        \/ (last.found.some /\ WrongPasswordFor(last.found.val, last.password))) =>
        /\ last.result = InvalidCredentials
        /\ handler_response(last.result) =
              [status |-> 401, kind |-> "Unauthorized", message |-> "Invalid email or password"]

\* C7 witness: a login that found the user and was given a wrong password.
C7_Witness ==
    /\ last.op = "login"
    /\ last.found.some
    /\ WrongPasswordFor(last.found.val, last.password)
    /\ last.result.tag = "err"

\* C8: a register_user called with an email a stored user already has fails
\* with the Validation error (HTTP 400), writes nothing to the user store and
\* ends there.
C8_DuplicateRejected ==
    [][\A p \in Procs, email \in Emails, password \in Passwords :
          (register_user_find(p, email, password) /\ EmailStored(email)) =>
              /\ last'.op = "register"
              /\ last'.email = email
              /\ last'.result = Err(DomainError("Validation", "User with this email already exists"))
              /\ handler_response(last'.result).status = 400
              /\ storage' = storage
              /\ pc'[p] = "idle"]_vars

\* C8 witness: a registration was rejected because its email was found.
C8_Witness ==
    /\ last.op = "register"
    /\ last.found.some
    /\ last.result.tag = "err"
    /\ EmailStored(last.email)

\* C9: get_token(user_id) fails with NotFound (HTTP 404) and returns no token
\* when no stored user has that id; otherwise it returns a token that
\* validates under the service's secret to exactly that id.
C9_GetToken ==
    [][\A user_id \in UserIds :
          get_token(user_id) =>
              IF user_id \in DOMAIN storage
              THEN /\ last'.result.tag = "token"
                   /\ validate_token(last'.result.token, jwt_secret, now) = TokenOk(user_id)
              ELSE /\ last'.result.tag = "err"
                   /\ last'.result.err.kind = "NotFound"
                   /\ handler_response(last'.result).status = 404]_vars

\* C9 witness: both outcomes of get_token have been seen, a token for a
\* stored id here.
C9_Witness ==
    /\ last.op = "get_token"
    /\ last.user_id \in DOMAIN storage
    /\ last.result.tag = "token"

\* The subject of the token the last call returned.
IssuedSubject == validate_token(last.result.token, jwt_secret, now)

\* C14: every token login or get_token returns has as subject the id of a
\* user record that is in the user store when the token is issued (and was
\* put there by a register_user); no token names an id that was never stored.
C14_IssuedSubjectStored ==
    (last.op \in {"login", "get_token"} /\ last.result.tag = "token") =>
        /\ IssuedSubject.ok
        /\ IssuedSubject.sub \in DOMAIN storage
        /\ storage[IssuedSubject.sub].id = IssuedSubject.sub
        /\ \E r \in reg_log : r.id = IssuedSubject.sub

\* C14 witness: a login returned a token while the store held two users and
\* a third id was still unknown to it.
C14_Witness ==
    /\ last.op = "login"
    /\ last.result.tag = "token"
    /\ Cardinality(DOMAIN storage) = 2
    /\ UserIds \ DOMAIN storage # {}

\* C15: login and get_token leave the user store unchanged, and so does a
\* register_user that fails; a register_user that succeeds adds exactly one
\* record, under an id no record had, and the id, email and password_hash of
\* every record already there stay as they were.
C15_UsersImmutable ==
    [][/\ (\E email \in Emails, password \in Passwords : login(email, password))
             => storage' = storage
       /\ (\E user_id \in UserIds : get_token(user_id)) => storage' = storage
       /\ (\E p \in Procs, email \in Emails, password \in Passwords :
                register_user_find(p, email, password)) => storage' = storage
       /\ (\E p \in Procs : register_user_save(p)) =>
              /\ last'.result.tag = "user"
              /\ \E id \in UserIds \ DOMAIN storage :
                    /\ DOMAIN storage' = DOMAIN storage \cup {id}
                    /\ storage'[id] = last'.result.user
                    /\ storage'[id].id = id
       /\ \A i \in DOMAIN storage : i \in DOMAIN storage' /\ storage'[i] = storage[i]]_vars

\* C15 witness: a register_user succeeded while the store already held a
\* record, which is still there beside the new one.
C15_Witness ==
    /\ last.op = "register"
    /\ last.result.tag = "user"
    /\ Cardinality(DOMAIN storage) = 2
    /\ last.result.user.id \in DOMAIN storage

\* C17: each hash_password call draws its own salt, so two calls on the same
\* password return different hash strings, and two users registered with the
\* same password never store equal password_hash values.
C17_SaltedPerCall ==
    \A i, j \in DOMAIN storage :
        i # j => /\ storage[i].password_hash # storage[j].password_hash
                 /\ storage[i].password_hash.salt # storage[j].password_hash.salt

\* C17 witness: two stored users registered with the same password.
C17_Witness ==
    \E r1, r2 \in reg_log :
        /\ r1.id # r2.id
        /\ r1.password = r2.password
        /\ {r1.id, r2.id} \subseteq DOMAIN storage
        /\ storage[r1.id].password_hash # storage[r2.id].password_hash

----------------------------------------------------------------------------
\* presentation/middleware.rs: the JWT gate

\* A path is the sequence of its segments: /api/auth/login is
\* <<"api", "auth", "login">>, and /api/auth/ is <<"api", "auth", "">>.
Paths ==
    {<<"api", "health">>, <<"api", "auth", "register">>, <<"api", "auth", "login">>,
     <<"api", "auth", "token">>, <<"api", "auth">>, <<"api", "accounts">>,
     <<"api", "transfers">>}

\* An Authorization header value is kept as: whether HeaderValue::to_str
\* accepts it (visible ASCII only), its first seven characters, and the rest.
HeaderValue(ascii, prefix, rest) == [ascii |-> ascii, prefix |-> prefix, rest |-> rest]

\* Mutant of is_public_route: every path under /api is public.
is_public_route_wide(path) == Len(path) >= 1 /\ path[1] = "api"

\* Mutant of is_public_route: only the health check is public.
is_public_route_narrow(path) == path = <<"api", "health">>

\* JwtAuthMiddleware::is_public_route:
\* path == "/api/health" || path.starts_with("/api/auth/")
is_public_route(path) ==
    \/ path = <<"api", "health">>
    \/ (Len(path) >= 3 /\ SubSeq(path, 1, 2) = <<"api", "auth">>)

\* call, lines 263-268: the Authorization header, read as a string, with the
\* prefix "Bearer " stripped; None if any of the three steps fails.
auth_header(header) ==
    IF ~header.some THEN None
    ELSE IF ~header.val.ascii THEN None
    ELSE IF header.val.prefix # "Bearer " THEN None
    ELSE Some(header.val.rest)

\* What becomes of a request: the inner service is called (with or without an
\* AuthenticatedUser in the extensions), or the middleware answers itself.
\* `validated` records whether validate_token was run.
Passed(auth_user, validated) ==
    [invoked |-> TRUE, validated |-> validated, auth_user |-> auth_user, status |-> 0, error |-> ""]
Rejected(error, validated) ==
    [invoked |-> FALSE, validated |-> validated, auth_user |-> None, status |-> 401, error |-> error]

\* Mutant of call: the rejection of a token names the cause.
call_leaky(path, header, secret, clock) ==
    IF is_public_route(path) THEN Passed(None, FALSE)
    ELSE LET token == auth_header(header) IN
         IF ~token.some THEN Rejected("missing bearer", FALSE)
         ELSE LET user_id == validate_token(token.val, secret, clock) IN
              IF ~user_id.ok THEN Rejected(user_id.err, TRUE)
              ELSE Passed(Some([user_id |-> user_id.sub]), TRUE)

\* Mutant of call: a missing header is reported as an invalid token.
call_one_message(path, header, secret, clock) ==
    IF is_public_route(path) THEN Passed(None, FALSE)
    ELSE LET token == auth_header(header) IN
         IF ~token.some THEN Rejected("invalid token", FALSE)
         ELSE LET user_id == validate_token(token.val, secret, clock) IN
              IF ~user_id.ok THEN Rejected("invalid token", TRUE)
              ELSE Passed(Some([user_id |-> user_id.sub]), TRUE)

\* Mutant of call: the subject a token names is looked up in the user store
\* first, and a token for an unknown user is refused.
call_known_users(path, header, secret, clock) ==
    IF is_public_route(path) THEN Passed(None, FALSE)
    ELSE LET token == auth_header(header) IN
         IF ~token.some THEN Rejected("missing bearer", FALSE)
         ELSE IF Len(token.val) = 3 /\ token.val[2].sub \notin DOMAIN storage
         THEN Rejected("invalid token", FALSE)
         ELSE LET user_id == validate_token(token.val, secret, clock) IN
              IF ~user_id.ok THEN Rejected("invalid token", TRUE)
              ELSE Passed(Some([user_id |-> user_id.sub]), TRUE)

\* JwtAuthMiddlewareService::call with the configured secret, at clock
\* reading `clock`.
call(path, header, secret, clock) ==
    IF is_public_route(path) THEN Passed(None, FALSE)
    ELSE LET token == auth_header(header) IN
         IF ~token.some THEN Rejected("missing bearer", FALSE)
         ELSE LET user_id == validate_token(token.val, secret, clock) IN
              IF ~user_id.ok THEN Rejected("invalid token", TRUE)
              ELSE Passed(Some([user_id |-> user_id.sub]), TRUE)

\* Tokens a client can present at clock reading `clock`: tokens
\* generate_token produced, now for any subject under the service's secret,
\* and earlier or now under any secret; a token of this service with its
\* claims altered after signing; an unsigned token; strings that are no token.
IssuedTokens(secret, clock) ==
    {generate_token(sub, secret, clock) : sub \in UserIds}
    \cup {generate_token(1, s, iat) : s \in Secrets, iat \in {t \in Instants : t <= clock}}
TamperedTokens(secret, clock) ==
    {<<t[1], [t[2] EXCEPT !.sub = sub], t[3]>> :
        t \in {generate_token(1, secret, clock)}, sub \in UserIds \ {1}}
    \cup {<<t[1], [t[2] EXCEPT !.exp = @ + TokenTtl], t[3]>> :
        t \in {generate_token(1, secret, iat) : iat \in {i \in Instants : i <= clock}}}
Garbage == [raw |-> "garbage"]
MalformedTokens ==
    {<< >>, <<Garbage>>, <<Garbage, Garbage, Garbage>>,
     <<[alg |-> "none"], [sub |-> 1, exp |-> TokenTtl, iat |-> 0], Garbage>>}
ClientTokens(secret, clock) ==
    IssuedTokens(secret, clock) \cup TamperedTokens(secret, clock) \cup MalformedTokens

\* Authorization headers a client can send: none, "Bearer <token>", a
\* "Bearer ..." value with a byte outside visible ASCII, and values with
\* another prefix in front of a token this service would accept.
ClientHeaders(secret, clock) ==
    {None}
    \cup {Some(HeaderValue(TRUE, "Bearer ", t)) : t \in ClientTokens(secret, clock)}
    \cup {Some(HeaderValue(FALSE, "Bearer ", <<Garbage>>))}
    \cup {Some(HeaderValue(TRUE, prefix, t)) :
            prefix \in {"bearer ", "NotBear"}, t \in {generate_token(1, secret, clock)}}

\* The cause validate_token gives for refusing the token of the request in
\* `gate` (handled at the present clock reading), "none" if there is none.
RejectionCause ==
    IF gate.seen /\ gate.outcome.validated /\ ~gate.outcome.invoked
    THEN validate_token(gate.header.val.rest, jwt_secret, now).err
    ELSE "none"

\* The rejection in `gate`, if it is one of a token, becomes the earlier one.
ShiftRejection ==
    IF RejectionCause # "none"
    THEN Some([cause |-> RejectionCause, status |-> gate.outcome.status,
               error |-> gate.outcome.error])
    ELSE prev_rejection

\* A request passes through the middleware.
Request(path, header) ==
    /\ gate' = [seen |-> TRUE, path |-> path, header |-> header,
                outcome |-> call(path, header, jwt_secret, now)]
    /\ prev_rejection' = ShiftRejection
    /\ UNCHANGED <<jwt_secret, now, storage, pc, pending, last, reg_log, tok, vres, issues, probe, hashed, verified, failure, repo_last, repo_found, account_storage, bank_pc, ledger, bank_last, cells, rwlock, store_pc, store_log>>

\* Time passes; the request in `gate` is over.
Advance ==
    /\ \E t \in Instants : t > now /\ now' = t
    /\ gate' = [seen |-> FALSE, path |-> << >>, header |-> None, outcome |-> Rejected("", FALSE)]
    /\ prev_rejection' = ShiftRejection
    /\ UNCHANGED <<jwt_secret, storage, pc, pending, last, reg_log, tok, vres, issues, probe, hashed, verified, failure, repo_last, repo_found, account_storage, bank_pc, ledger, bank_last, cells, rwlock, store_pc, store_log>>

NextGate ==
    \/ \E path \in Paths, header \in ClientHeaders(jwt_secret, now) : Request(path, header)
    \/ Advance

SpecGate == Init /\ [][NextGate]_vars

----------------------------------------------------------------------------
\* Claims about the JWT gate, checked under SpecGate.

\* The public routes as the claims name them: the path /api/health, and every
\* path that starts with /api/auth/.
PublicPath(path) ==
    \/ path = <<"api", "health">>
    \/ (Len(path) > 2 /\ path[1] = "api" /\ path[2] = "auth")

\* The request in `gate` carries a header "Bearer <token>" readable as text.
BearerHeader ==
    gate.header.some /\ gate.header.val.ascii /\ gate.header.val.prefix = "Bearer "

\* What validate_token says now, under the configured secret, of the rest of
\* the header of the request in `gate`.
GateTokenCheck == validate_token(gate.header.val.rest, jwt_secret, now)

\* C2: on a path that is not public the handler is invoked only if the
\* request carried "Bearer <token>" with a token validate_token accepts under
\* the configured secret at that time, and then the AuthenticatedUser
\* attached has the subject of that token as user_id.
C2_AuthGateSafety ==
    (gate.seen /\ ~PublicPath(gate.path) /\ gate.outcome.invoked) =>
        /\ BearerHeader
        /\ GateTokenCheck.ok
        /\ gate.outcome.auth_user = Some([user_id |-> gate.header.val.rest[2].sub])

\* C2 witness: a protected path let through for subject 2.
C2_Witness ==
    /\ gate.seen
    /\ gate.path = <<"api", "accounts">>
    /\ gate.outcome.invoked
    /\ gate.outcome.auth_user = Some([user_id |-> 2])

MissingBearer ==
    gate.outcome = [invoked |-> FALSE, validated |-> FALSE, auth_user |-> None,
                    status |-> 401, error |-> "missing bearer"]
InvalidToken ==
    /\ ~gate.outcome.invoked
    /\ gate.outcome.auth_user = None
    /\ gate.outcome.status = 401
    /\ gate.outcome.error = "invalid token"

C4_UniformRejection ==
    (RejectionCause # "none" /\ prev_rejection.some) =>
        /\ gate.outcome.status = prev_rejection.val.status
        /\ gate.outcome.error = prev_rejection.val.error
        /\ gate.outcome.status = 401
        /\ gate.outcome.error = "invalid token"

\* C4 witness: an expired token is refused after a token signed with another
\* secret or a malformed one was.
C4_Witness ==
    /\ RejectionCause = "ExpiredSignature"
    /\ prev_rejection.some
    /\ prev_rejection.val.cause \in {"InvalidSignature", "InvalidToken"}

\* C5: a request on a public path (the health check, registration, login and
\* token issuance among them) reaches the handler whatever its Authorization
\* header, without validate_token being run and with no AuthenticatedUser
\* attached; on every other path nothing reaches the handler unvalidated.
C5_PublicBypass ==
    gate.seen =>
        /\ gate.path \in {<<"api", "health">>, <<"api", "auth", "register">>,
                          <<"api", "auth", "login">>, <<"api", "auth", "token">>}
              => PublicPath(gate.path)
        /\ PublicPath(gate.path) =>
              /\ gate.outcome.invoked
              /\ ~gate.outcome.validated
              /\ gate.outcome.auth_user = None
        /\ (~PublicPath(gate.path) /\ gate.outcome.invoked) =>
              /\ gate.outcome.validated
              /\ gate.outcome.auth_user.some

\* C5 witness: the login route reached with a Bearer token that fails
\* validation.
C5_Witness ==
    /\ gate.seen
    /\ gate.path = <<"api", "auth", "login">>
    /\ BearerHeader
    /\ ~GateTokenCheck.ok
    /\ gate.outcome.invoked

----------------------------------------------------------------------------
\* infrastructure/security.rs: generate_token and validate_token applied to
\* drawn subjects and secrets as the clock moves.

\* generate_token(sub, secret) is called now.
Issue(sub, secret) ==
    /\ tok' = [issued |-> TRUE, sub |-> sub, secret |-> secret, iat |-> now,
               token |-> generate_token(sub, secret, now)]
    /\ vres' = [done |-> FALSE, secret |-> << >>, at |-> 0, result |-> TokenErr("")]
    /\ UNCHANGED <<jwt_secret, now, storage, pc, pending, last, reg_log, gate, prev_rejection, issues, probe, hashed, verified, failure, repo_last, repo_found, account_storage, bank_pc, ledger, bank_last, cells, rwlock, store_pc, store_log>>

\* validate_token(token, secret) is called now on the token issued last.
Validate(secret) ==
    /\ tok.issued
    /\ vres' = [done |-> TRUE, secret |-> secret, at |-> now,
                result |-> validate_token(tok.token, secret, now)]
    /\ UNCHANGED <<jwt_secret, now, storage, pc, pending, last, reg_log, gate, prev_rejection, tok, issues, probe, hashed, verified, failure, repo_last, repo_found, account_storage, bank_pc, ledger, bank_last, cells, rwlock, store_pc, store_log>>

\* Time passes.
Elapse ==
    /\ \E t \in Instants : t > now /\ now' = t
    /\ UNCHANGED <<jwt_secret, storage, pc, pending, last, reg_log, gate, prev_rejection, tok, vres, issues, probe, hashed, verified, failure, repo_last, repo_found, account_storage, bank_pc, ledger, bank_last, cells, rwlock, store_pc, store_log>>

NextToken ==
    \/ \E sub \in UserIds, secret \in Secrets : Issue(sub, secret)
    \/ \E secret \in Secrets : Validate(secret)
    \/ Elapse

SpecToken == Init /\ [][NextToken]_vars

----------------------------------------------------------------------------
\* Claims about the token codec, checked under SpecToken.

\* The validation in vres took place no later than the expiry of tok.
BeforeExpiry == vres.done /\ vres.at <= tok.iat + TokenTtl

\* s is t followed by NUL bytes only (possibly none).
ExtendsByNul(s, t) ==
    /\ Len(s) >= Len(t)
    /\ SubSeq(s, 1, Len(t)) = t
    /\ \A i \in (Len(t) + 1)..Len(s) : s[i] = 0

\* C10 as stated: before expiry, validate_token(generate_token(sub, s1), s2)
\* returns sub if s1 = s2 and fails if s1 # s2.
C10_SecretBindingAsStated ==
    BeforeExpiry =>
        IF tok.secret = vres.secret
        THEN vres.result = TokenOk(tok.sub)
        ELSE ~vres.result.ok

\* C10 as amended (secrets no longer than the 64-byte HMAC block): before
\* expiry, validate_token(generate_token(sub, s1), s2) returns sub if s1 and
\* s2 are equal or one is the other followed by NUL bytes only, and fails
\* otherwise.
C10_SecretBinding ==
    BeforeExpiry =>
        IF ExtendsByNul(tok.secret, vres.secret) \/ ExtendsByNul(vres.secret, tok.secret)
        THEN vres.result = TokenOk(tok.sub)
        ELSE ~vres.result.ok

\* C10 witness: a token validated before expiry under a secret that differs
\* from the signing secret in more than trailing NUL bytes, and refused.
C10_Witness ==
    /\ BeforeExpiry
    /\ tok.secret = <<1>>
    /\ vres.secret = <<2>>
    /\ ~vres.result.ok

\* C11: a token issued at time t carries iat = t and exp = t + 3600, and
\* validate_token with the signing secret accepts it at every time
\* now <= exp + 60 and rejects it at every now > exp + 60.
C11_TokenLifetime ==
    /\ tok.issued =>
          /\ tok.token[2].iat = tok.iat
          /\ tok.token[2].exp = tok.iat + 3600
    /\ (vres.done /\ vres.secret = tok.secret) =>
          IF vres.at <= tok.iat + 3600 + 60
          THEN vres.result = TokenOk(tok.sub)
          ELSE vres.result = TokenErr("ExpiredSignature")

\* C11 witness: a token validated with its secret in the last second of the
\* leeway, 3660 seconds after it was issued, and accepted.
C11_Witness ==
    /\ vres.done
    /\ vres.secret = tok.secret
    /\ vres.at = tok.iat + 3660
    /\ vres.result.ok

----------------------------------------------------------------------------
\* application/auth_service.rs: the two issuing paths, login and get_token,
\* applied to drawn users and secrets as the clock moves.

\* Users the store can hand to login / get_token: what register_user built.
FoundUsers == {register_user_build(id, "a@x.com", "pw", 1) : id \in UserIds}

\* The last two issuances, the latest last.
Issued(op, user, secret, token) ==
    LET all == Append(issues, [op |-> op, sub |-> user.id, secret |-> secret, at |-> now,
                               token |-> token])
    IN IF Len(all) > 2 THEN Tail(all) ELSE all

\* login for a user the store returned, with the password they registered.
IssueByLogin(user, secret) ==
    /\ LET result == login_result(Some(user), "pw", secret, now) IN
          /\ result.tag = "token"
          /\ issues' = Issued("login", user, secret, result.token)
    /\ UNCHANGED <<jwt_secret, now, storage, pc, pending, last, reg_log, gate, prev_rejection, tok, vres, probe, hashed, verified, failure, repo_last, repo_found, account_storage, bank_pc, ledger, bank_last, cells, rwlock, store_pc, store_log>>

\* get_token for a user the store returned.
IssueByGetToken(user, secret) ==
    /\ LET result == get_token_result(Some(user), secret, now) IN
          /\ result.tag = "token"
          /\ issues' = Issued("get_token", user, secret, result.token)
    /\ UNCHANGED <<jwt_secret, now, storage, pc, pending, last, reg_log, gate, prev_rejection, tok, vres, probe, hashed, verified, failure, repo_last, repo_found, account_storage, bank_pc, ledger, bank_last, cells, rwlock, store_pc, store_log>>

NextIssue ==
    \/ \E user \in FoundUsers, secret \in Secrets : IssueByLogin(user, secret)
    \/ \E user \in FoundUsers, secret \in Secrets : IssueByGetToken(user, secret)
    \/ Elapse

SpecIssue == Init /\ [][NextIssue]_vars

\* C12: two issuances for the same subject and secret return the same token
\* if they fall in the same second, whether through login or get_token, and
\* different tokens if they fall in different seconds.
C12_IssuanceDeterministic ==
    \A i, j \in 1..Len(issues) :
        (issues[i].sub = issues[j].sub /\ issues[i].secret = issues[j].secret) =>
            (issues[i].token = issues[j].token <=> issues[i].at = issues[j].at)

\* C12 witness: a login and a get_token for the same subject and secret in
\* one second, after which the two tokens are the same.
C12_Witness ==
    /\ Len(issues) = 2
    /\ issues[1].op = "login"
    /\ issues[2].op = "get_token"
    /\ issues[1].sub = issues[2].sub
    /\ issues[1].secret = issues[2].secret
    /\ issues[1].at = issues[2].at
    /\ issues[1].token = issues[2].token

----------------------------------------------------------------------------
\* presentation/middleware.rs next to application/auth_service.rs: requests
\* pass through the gate while users register and log in and tokens are
\* issued.

StatelessPaths == {<<"api", "health">>, <<"api", "accounts">>}

\* Authorization headers sent here: none, a token of this service for the
\* first id the store takes and one for an id it never takes, and a string
\* that is no token.
StatelessHeaders(secret) ==
    {None}
    \cup {Some(HeaderValue(TRUE, "Bearer ", generate_token(sub, secret, 0))) :
            sub \in {1, MaxUsers + 1}}
    \cup {Some(HeaderValue(TRUE, "Bearer ", <<Garbage>>))}

\* A request passes through the middleware; the first one of the run is kept.
Serve(path, header) ==
    /\ gate' = [seen |-> TRUE, path |-> path, header |-> header,
                outcome |-> call(path, header, jwt_secret, now)]
    /\ prev_rejection' = ShiftRejection
    /\ probe' = IF probe.some THEN probe
                ELSE Some([path |-> path, header |-> header, at |-> now,
                           users |-> DOMAIN storage,
                           outcome |-> call(path, header, jwt_secret, now)])
    /\ UNCHANGED <<jwt_secret, now, storage, pc, pending, last, reg_log, tok, vres, issues, hashed, verified, failure, repo_last, repo_found, account_storage, bank_pc, ledger, bank_last, cells, rwlock, store_pc, store_log>>

NextStateless ==
    \/ \E p \in Procs : register_user_find(p, "a@x.com", "pw")
    \/ \E p \in Procs : register_user_save(p)
    \/ login("a@x.com", "pw")
    \/ get_token(1)
    \/ TickSecond
    \/ \E path \in StatelessPaths, header \in StatelessHeaders(jwt_secret) : Serve(path, header)

SpecStateless == Init /\ [][NextStateless]_vars

\* The request in `gate` is the request in `probe` again, at the same clock
\* reading.
SameRequest ==
    /\ probe.some
    /\ gate.seen
    /\ gate.path = probe.val.path
    /\ gate.header = probe.val.header
    /\ now = probe.val.at

----------------------------------------------------------------------------
\* infrastructure/security.rs: hash_password and verify_password applied to
\* drawn passwords and stored strings, and login on top of them.

\* Passwords given to the hasher; the empty one among them.
HashPasswords == Passwords \cup {""}

\* Strings a password_hash field can hold that hash_password did not return:
\* a string that is no PHC string; a PHC string of another algorithm; an
\* argon2id PHC string with cost parameters Params::try_from refuses.
NotAHash == [raw |-> "not_a_valid_hash"]
OtherAlgorithmHash ==
    [alg |-> "pbkdf2-sha256", m |-> 0, t |-> 0, p |-> 0, salt |-> 1, digest |-> [raw |-> "digest"]]
BadParamsHash == [hash_password("pw", 1) EXCEPT !.m = 0]
CorruptHashes == {NotAHash, OtherAlgorithmHash, BadParamsHash}

\* hash_password(password) is called.
HashPassword(password) ==
    /\ hashed' = [done |-> TRUE, password |-> password,
                  hash |-> hash_password(password,
                              SaltString_generate(IF hashed.done THEN {hashed.hash.salt} ELSE {}))]
    /\ UNCHANGED <<jwt_secret, now, storage, pc, pending, last, reg_log, gate, prev_rejection, tok, vres, issues, probe, verified, failure, repo_last, repo_found, account_storage, bank_pc, ledger, bank_last, cells, rwlock, store_pc, store_log>>

\* verify_password(password, hash), and login for a stored user with that
\* password_hash, on the hash the last hash_password returned.
VerifyHashed(password) ==
    /\ hashed.done
    /\ verified' = [done |-> TRUE, password |-> password, hash |-> hashed.hash,
                    of |-> Some(hashed.password),
                    result |-> verify_password(password, hashed.hash),
                    login |-> login_result(Some([id |-> 1, email |-> "a@x.com",
                                                 password_hash |-> hashed.hash]),
                                           password, jwt_secret, now)]
    /\ UNCHANGED <<jwt_secret, now, storage, pc, pending, last, reg_log, gate, prev_rejection, tok, vres, issues, probe, hashed, failure, repo_last, repo_found, account_storage, bank_pc, ledger, bank_last, cells, rwlock, store_pc, store_log>>

\* The same on a stored string that hash_password did not return.
VerifyCorrupt(password, hash) ==
    /\ verified' = [done |-> TRUE, password |-> password, hash |-> hash, of |-> None,
                    result |-> verify_password(password, hash),
                    login |-> login_result(Some([id |-> 1, email |-> "a@x.com",
                                                 password_hash |-> hash]),
                                           password, jwt_secret, now)]
    /\ UNCHANGED <<jwt_secret, now, storage, pc, pending, last, reg_log, gate, prev_rejection, tok, vres, issues, probe, hashed, failure, repo_last, repo_found, account_storage, bank_pc, ledger, bank_last, cells, rwlock, store_pc, store_log>>

NextHasher ==
    \/ \E password \in HashPasswords : HashPassword(password)
    \/ \E password \in HashPasswords : VerifyHashed(password)
    \/ \E password \in HashPasswords, hash \in CorruptHashes : VerifyCorrupt(password, hash)
    \/ TickSecond

SpecHasher == Init /\ [][NextHasher]_vars

\* C16: for all passwords p1 and p2, the empty one included,
\* verify_password(p1, hash_password(p2)) returns true if p1 = p2 and false
\* if p1 # p2.
C16_VerifyIsComparison ==
    (verified.done /\ verified.of.some) =>
        verified.result = [ok |-> TRUE, val |-> (verified.password = verified.of.val)]

\* C16 witness: the empty password verified against its own hash.
C16_Witness ==
    /\ verified.done
    /\ verified.of = Some("")
    /\ verified.password = ""
    /\ verified.result.val

\* C18: verify_password returns an error, never the boolean false, when the
\* stored hash string is malformed or cannot be verified as a hash, and login
\* for a user whose password_hash is such a string fails with an Internal
\* error (HTTP 500), not Unauthorized.
C18_CorruptHashIsError ==
    (verified.done /\ verified.hash \in CorruptHashes) =>
        /\ ~verified.result.ok
        /\ verified.login.tag = "err"
        /\ verified.login.err.kind = "Internal"
        /\ handler_response(verified.login).status = 500

----------------------------------------------------------------------------
\* presentation/handlers.rs, presentation/auth.rs: failures of service
\* operations on their way to the HTTP response.

\* Errors a service operation can return: every DomainError variant, and an
\* anyhow::Error that holds no DomainError.
ServiceErrors ==
    {DomainError("InsufficientFunds", ""), DomainError("AccountNotFound", ""),
     DomainError("InvalidAmount", ""),
     DomainError("Validation", "User with this email already exists"),
     DomainError("NotFound", "User not found"),
     DomainError("Unauthorized", "Invalid email or password"),
     DomainError("Internal", "Failed to verify password"),
     [kind |-> "anyhow", msg |-> "not a DomainError"]}

\* A service operation returns Err(err); the handler's map_err / `?` turns
\* it into a BankError and actix into its error_response.
Fail(err) ==
    /\ failure' = Some([err |-> err, response |-> handler_response(Err(err))])
    /\ UNCHANGED <<jwt_secret, now, storage, pc, pending, last, reg_log, gate, prev_rejection, tok, vres, issues, probe, hashed, verified, repo_last, repo_found, account_storage, bank_pc, ledger, bank_last, cells, rwlock, store_pc, store_log>>

NextFailure ==
    \/ NextHasher
    \/ \E err \in ServiceErrors : Fail(err)

SpecFailure == Init /\ [][NextFailure]_vars

\* The status the claim gives for each kind of failure.
StatusAsClaimed(kind) ==
    CASE kind \in {"Validation", "InvalidAmount", "InsufficientFunds"} -> 400
      [] kind \in {"NotFound", "AccountNotFound"} -> 404
      [] kind = "Unauthorized" -> 401
      [] kind = "Internal" -> 500
      [] OTHER -> 500

\* C19: every failure a service operation returns becomes exactly one HTTP
\* status: Validation, InvalidAmount, InsufficientFunds -> 400; NotFound,
\* AccountNotFound -> 404; Unauthorized -> 401; Internal -> 500; an error
\* that is no DomainError -> 500; never a success status.
C19_ErrorStatusMapping ==
    /\ failure.some =>
          /\ failure.val.response.status = StatusAsClaimed(failure.val.err.kind)
          /\ failure.val.response.status \notin 200..299
    /\ (verified.done /\ verified.login.tag = "err") =>
          /\ handler_response(verified.login).status = StatusAsClaimed(verified.login.err.kind)
          /\ handler_response(verified.login).status \notin 200..299

\* C19 witness: AccountNotFound, which reaches its status through the
\* NotFound variant of BankError, answered 404 after a login failed with 401.
C19_Witness ==
    /\ failure.some
    /\ failure.val.err.kind = "AccountNotFound"
    /\ failure.val.response.status = 404
    /\ verified.done
    /\ verified.login.tag = "err"
    /\ handler_response(verified.login).status = 401

----------------------------------------------------------------------------
\* data/user_repository.rs: InMemoryUserRepository called directly, with
\* users under any id.

\* Users handed to save_user.
RepoUsers ==
    {[id |-> id, email |-> email, password_hash |-> hash] :
        id \in UserIds, email \in Emails,
        hash \in {hash_password("pw", 1), hash_password("wrong", 2)}}

\* save_user(user)
SaveUser(user) ==
    /\ storage' = save_user(storage, user)
    /\ repo_last' = [op |-> "save", user |-> user, before |-> find_user_by_id(storage, user.id),
                     result |-> "Ok"]
    /\ repo_found' = [op |-> "none", id |-> 0, email |-> "", result |-> None]
    /\ UNCHANGED <<jwt_secret, now, pc, pending, last, reg_log, gate, prev_rejection, tok, vres, issues, probe, hashed, verified, failure, account_storage, bank_pc, ledger, bank_last, cells, rwlock, store_pc, store_log>>

\* find_user_by_id(id)
FindUserById(id) ==
    /\ repo_found' = [op |-> "find_by_id", id |-> id, email |-> "",
                      result |-> find_user_by_id(storage, id)]
    /\ UNCHANGED <<jwt_secret, now, storage, pc, pending, last, reg_log, gate, prev_rejection, tok, vres, issues, probe, hashed, verified, failure, repo_last, account_storage, bank_pc, ledger, bank_last, cells, rwlock, store_pc, store_log>>

\* find_user_by_email(email)
FindUserByEmail(email) ==
    /\ \E found \in find_user_by_email(storage, email) :
          repo_found' = [op |-> "find_by_email", id |-> 0, email |-> email, result |-> found]
    /\ UNCHANGED <<jwt_secret, now, storage, pc, pending, last, reg_log, gate, prev_rejection, tok, vres, issues, probe, hashed, verified, failure, repo_last, account_storage, bank_pc, ledger, bank_last, cells, rwlock, store_pc, store_log>>

NextRepo ==
    \/ \E user \in RepoUsers : SaveUser(user)
    \/ \E id \in UserIds : FindUserById(id)
    \/ \E email \in Emails : FindUserByEmail(email)

SpecRepo == Init /\ [][NextRepo]_vars

\* The last save_user replaced a record that differs from the one saved.
Overwrote == repo_last.op = "save" /\ repo_last.before.some /\ repo_last.before.val # repo_last.user

----------------------------------------------------------------------------
\* domain/models.rs, data/memory.rs, application/service.rs: the ledger

\* struct Account { id: u32, name: String, balance: Amount }
Account(id, name, balance) == [id |-> id, name |-> name, balance |-> balance]

OkAccount(account) == [tag |-> "account", account |-> account]
OkUnit == [tag |-> "unit"]
\* The task unwound: "attempt to add with overflow".
Panicked == [tag |-> "panic"]

\* InMemoryAccountRepository::save: HashMap::insert under the write lock.
save(st, account) ==
    [i \in DOMAIN st \cup {account.id} |-> IF i = account.id THEN account ELSE st[i]]

\* InMemoryAccountRepository::find_by_id: storage.get(&id).cloned() under the
\* read lock.
find_by_id(st, id) ==
    IF id \in DOMAIN st THEN Some(st[id]) ELSE None

\* InMemoryAccountRepository::update: HashMap::insert under the write lock,
\* whether or not the id is stored.
update(st, account) ==
    [i \in DOMAIN st \cup {account.id} |-> IF i = account.id THEN account ELSE st[i]]

\* BankService::get_account
get_account(st, id) ==
    IF find_by_id(st, id) = None
    THEN Err(DomainError("AccountNotFound", ""))
    ELSE OkAccount(find_by_id(st, id).val)

\* u64 + u64 as the build compiles it: with overflow checks (the dev profile)
\* an overflowing sum panics, without them (the release profile) it wraps.
\* The set of outcomes.
u64_add(a, b) ==
    IF a + b <= MaxAmount
    THEN {[panicked |-> FALSE, val |-> a + b]}
    ELSE {[panicked |-> TRUE, val |-> 0],
          [panicked |-> FALSE, val |-> (a + b) % (MaxAmount + 1)]}

\* Mutant of withdraw_check: the exact balance cannot be withdrawn.
withdraw_check_strict(account, amount) ==
    IF account.balance <= amount
    THEN Err(DomainError("InsufficientFunds", ""))
    ELSE NoResult

\* withdraw: the funds check (NoResult: passed).
withdraw_check(account, amount) ==
    IF account.balance < amount
    THEN Err(DomainError("InsufficientFunds", ""))
    ELSE NoResult

\* Mutant of transfer_same_account_check: a transfer to the same account is
\* let through.
transfer_same_account_allowed(from, to) == NoResult

\* transfer: the same-account check (NoResult: passed).
transfer_same_account_check(from, to) ==
    IF from = to
    THEN Err(DomainError("InvalidAmount", ""))
    ELSE NoResult

\* transfer: the funds check (NoResult: passed).
transfer_funds_check(from_account, amount) ==
    IF from_account.balance < amount
    THEN Err(DomainError("InsufficientFunds", ""))
    ELSE NoResult

Quiet == \A q \in Procs : bank_pc[q] = IdleTask

BankFrame ==
    UNCHANGED <<jwt_secret, now, storage, pc, pending, last, reg_log, gate, prev_rejection, tok, vres, issues, probe, hashed, verified, failure, repo_last, repo_found, cells, rwlock, store_pc, store_log>>

\* What an operation that starts records: the operation count and its kind.
Started(op) == [ledger EXCEPT !.ops = @ + 1, !.kinds = @ \cup {op}]

\* The record of an operation that returned.
Returned(op, id, to, amount, before, read, read_to, result) ==
    [op |-> op, id |-> id, to |-> to, amount |-> amount, before |-> before,
     read |-> read, read_to |-> read_to, result |-> result]

\* BankService::create_account: the id is fastrand::u32(..), the account is
\* saved as drawn.
create_account(p, name) ==
    /\ bank_pc[p] = IdleTask
    /\ ledger.ops < MaxOps
    /\ \E id \in AccountIds :
         LET account == Account(id, name, 0) IN
         /\ account_storage' = save(account_storage, account)
         /\ ledger' = [ledger EXCEPT !.ops = @ + 1, !.kinds = @ \cup {"create_account"},
                                     !.opening[id] = 0,
                                     !.deposits[id] = 0, !.withdrawals[id] = 0,
                                     !.transfers_in[id] = 0, !.transfers_out[id] = 0,
                                     !.replaced = @ \/ id \in DOMAIN account_storage]
         /\ bank_last' = Returned("create_account", id, 0, 0, account_storage, None, None,
                                  OkAccount(account))
    /\ UNCHANGED bank_pc
    /\ BankFrame

\* BankService::deposit up to the update: get_account under the read lock.
deposit_get(p, id, amount) ==
    /\ bank_pc[p] = IdleTask
    /\ ledger.ops < MaxOps
    /\ LET got == get_account(account_storage, id) IN
       IF got.tag = "err"
       THEN /\ bank_last' = Returned("deposit", id, 0, amount, account_storage, None, None, got)
            /\ UNCHANGED bank_pc
       ELSE /\ bank_pc' = [bank_pc EXCEPT ![p] =
                              [IdleTask EXCEPT !.op = "deposit", !.at = "update", !.id = id,
                                               !.amount = amount,
                                               !.from_account = Some(got.account),
                                               !.before = account_storage]]
            /\ UNCHANGED bank_last
    /\ ledger' = Started("deposit")
    /\ UNCHANGED account_storage
    /\ BankFrame

\* BankService::deposit from the addition on: old_balance + deposit_amount,
\* then update under the write lock.
deposit_update(p) ==
    /\ bank_pc[p].op = "deposit"
    /\ bank_pc[p].at = "update"
    /\ LET t == bank_pc[p]
           account == t.from_account.val
       IN \E sum \in u64_add(account.balance, t.amount) :
            IF sum.panicked
            THEN /\ bank_last' = Returned("deposit", t.id, 0, t.amount, t.before,
                                          t.from_account, None, Panicked)
                 /\ ledger' = [ledger EXCEPT !.overflowed = TRUE]
                 /\ UNCHANGED account_storage
            ELSE LET updated == [account EXCEPT !.balance = sum.val] IN
                 /\ account_storage' = update(account_storage, updated)
                 /\ bank_last' = Returned("deposit", t.id, 0, t.amount, t.before,
                                          t.from_account, None, OkAccount(updated))
                 /\ ledger' = [ledger EXCEPT !.deposits[t.id] = @ + t.amount,
                                             !.overflowed = @ \/ account.balance + t.amount > MaxAmount]
    /\ bank_pc' = [bank_pc EXCEPT ![p] = IdleTask]
    /\ BankFrame

\* BankService::withdraw up to the update: get_account under the read lock
\* and the funds check.
withdraw_get(p, id, amount) ==
    /\ bank_pc[p] = IdleTask
    /\ ledger.ops < MaxOps
    /\ LET got == get_account(account_storage, id) IN
       IF got.tag = "err"
       THEN /\ bank_last' = Returned("withdraw", id, 0, amount, account_storage, None, None, got)
            /\ UNCHANGED bank_pc
       ELSE IF withdraw_check(got.account, amount) # NoResult
       THEN /\ bank_last' = Returned("withdraw", id, 0, amount, account_storage,
                                     Some(got.account), None, withdraw_check(got.account, amount))
            /\ UNCHANGED bank_pc
       ELSE /\ bank_pc' = [bank_pc EXCEPT ![p] =
                              [IdleTask EXCEPT !.op = "withdraw", !.at = "update", !.id = id,
                                               !.amount = amount,
                                               !.from_account = Some(got.account),
                                               !.before = account_storage]]
            /\ UNCHANGED bank_last
    /\ ledger' = Started("withdraw")
    /\ UNCHANGED account_storage
    /\ BankFrame

\* BankService::withdraw from the subtraction on: current_balance -
\* withdrawal_amount, then update under the write lock.
withdraw_update(p) ==
    /\ bank_pc[p].op = "withdraw"
    /\ bank_pc[p].at = "update"
    /\ LET t == bank_pc[p]
           account == t.from_account.val
           updated == [account EXCEPT !.balance = account.balance - t.amount]
       IN /\ account_storage' = update(account_storage, updated)
          /\ bank_last' = Returned("withdraw", t.id, 0, t.amount, t.before,
                                   t.from_account, None, OkAccount(updated))
          /\ ledger' = [ledger EXCEPT !.withdrawals[t.id] = @ + t.amount]
    /\ bank_pc' = [bank_pc EXCEPT ![p] = IdleTask]
    /\ BankFrame

\* BankService::transfer up to the second read: the same-account check and
\* get_account(from) under the read lock.
transfer_get_from(p, from, to, amount) ==
    /\ bank_pc[p] = IdleTask
    /\ ledger.ops < MaxOps
    /\ IF transfer_same_account_check(from, to) # NoResult
       THEN /\ bank_last' = Returned("transfer", from, to, amount, account_storage, None, None,
                                     transfer_same_account_check(from, to))
            /\ UNCHANGED bank_pc
       ELSE LET got == get_account(account_storage, from) IN
            IF got.tag = "err"
            THEN /\ bank_last' = Returned("transfer", from, to, amount, account_storage,
                                          None, None, got)
                 /\ UNCHANGED bank_pc
            ELSE /\ bank_pc' = [bank_pc EXCEPT ![p] =
                                   [IdleTask EXCEPT !.op = "transfer", !.at = "get_to",
                                                    !.id = from, !.to = to, !.amount = amount,
                                                    !.from_account = Some(got.account),
                                                    !.before = account_storage]]
                 /\ UNCHANGED bank_last
    /\ ledger' = Started("transfer")
    /\ UNCHANGED account_storage
    /\ BankFrame

\* BankService::transfer from the second read to the first update:
\* get_account(to) under the read lock, the funds check, from_balance -
\* transfer_amount and to_balance + transfer_amount.
transfer_get_to(p) ==
    /\ bank_pc[p].op = "transfer"
    /\ bank_pc[p].at = "get_to"
    /\ LET t == bank_pc[p]
           got == get_account(account_storage, t.to)
       IN IF got.tag = "err"
          THEN /\ bank_last' = Returned("transfer", t.id, t.to, t.amount, t.before,
                                        t.from_account, None, got)
               /\ bank_pc' = [bank_pc EXCEPT ![p] = IdleTask]
               /\ UNCHANGED ledger
          ELSE IF transfer_funds_check(t.from_account.val, t.amount) # NoResult
          THEN /\ bank_last' = Returned("transfer", t.id, t.to, t.amount, t.before,
                                        t.from_account, Some(got.account),
                                        transfer_funds_check(t.from_account.val, t.amount))
               /\ bank_pc' = [bank_pc EXCEPT ![p] = IdleTask]
               /\ UNCHANGED ledger
          ELSE \E sum \in u64_add(got.account.balance, t.amount) :
                 IF sum.panicked
                 THEN /\ bank_last' = Returned("transfer", t.id, t.to, t.amount, t.before,
                                               t.from_account, Some(got.account), Panicked)
                      /\ bank_pc' = [bank_pc EXCEPT ![p] = IdleTask]
                      /\ ledger' = [ledger EXCEPT !.overflowed = TRUE]
                 ELSE /\ bank_pc' = [bank_pc EXCEPT ![p] =
                                        [t EXCEPT !.at = "update_from",
                                                  !.to_account = Some(got.account),
                                                  !.to_balance = sum.val]]
                      /\ ledger' = [ledger EXCEPT
                                        !.overflowed = @ \/ got.account.balance + t.amount > MaxAmount]
                      /\ UNCHANGED bank_last
    /\ UNCHANGED account_storage
    /\ BankFrame

\* BankService::transfer: update(from_account) under the write lock.
transfer_update_from(p) ==
    /\ bank_pc[p].op = "transfer"
    /\ bank_pc[p].at = "update_from"
    /\ LET t == bank_pc[p]
           account == t.from_account.val
       IN account_storage' =
              update(account_storage, [account EXCEPT !.balance = account.balance - t.amount])
    /\ bank_pc' = [bank_pc EXCEPT ![p].at = "update_to"]
    /\ UNCHANGED <<ledger, bank_last>>
    /\ BankFrame

\* BankService::transfer: update(to_account) under the write lock, Ok(()).
transfer_update_to(p) ==
    /\ bank_pc[p].op = "transfer"
    /\ bank_pc[p].at = "update_to"
    /\ LET t == bank_pc[p]
           account == t.to_account.val
       IN /\ account_storage' = update(account_storage, [account EXCEPT !.balance = t.to_balance])
          /\ bank_last' = Returned("transfer", t.id, t.to, t.amount, t.before,
                                   t.from_account, t.to_account, OkUnit)
          /\ ledger' = [ledger EXCEPT !.transfers_out[t.id] = @ + t.amount,
                                      !.transfers_in[t.to] = @ + t.amount]
    /\ bank_pc' = [bank_pc EXCEPT ![p] = IdleTask]
    /\ BankFrame

\* SpecBank: request tasks run deposit, withdraw and transfer concurrently on
\* the opened accounts; every repository call is one lock acquisition.
NextBank ==
    \/ \E p \in Procs, id \in {1, 2}, amount \in SampleAmounts : deposit_get(p, id, amount)
    \/ \E p \in Procs : deposit_update(p)
    \/ \E p \in Procs, id \in {1, 2}, amount \in SampleAmounts : withdraw_get(p, id, amount)
    \/ \E p \in Procs : withdraw_update(p)
    \/ \E p \in Procs, from \in {1, 2}, to \in {1, 2}, amount \in SampleAmounts :
         transfer_get_from(p, from, to, amount)
    \/ \E p \in Procs : transfer_get_to(p)
    \/ \E p \in Procs : transfer_update_from(p)
    \/ \E p \in Procs : transfer_update_to(p)

SpecBank == InitOpened /\ [][NextBank]_vars

\* SpecLedger: the operations of BankService run one after another, all on
\* one task: an operation starts only when no other is in flight.
NextLedger ==
    \/ \E p \in {1}, name \in AccountNames : Quiet /\ create_account(p, name)
    \/ \E p \in {1}, id \in AccountIds, amount \in SampleAmounts : Quiet /\ deposit_get(p, id, amount)
    \/ \E p \in {1} : deposit_update(p)
    \/ \E p \in {1}, id \in AccountIds, amount \in SampleAmounts : Quiet /\ withdraw_get(p, id, amount)
    \/ \E p \in {1} : withdraw_update(p)
    \/ \E p \in {1}, from \in AccountIds, to \in AccountIds, amount \in SampleAmounts :
         Quiet /\ transfer_get_from(p, from, to, amount)
    \/ \E p \in {1} : transfer_get_to(p)
    \/ \E p \in {1} : transfer_update_from(p)
    \/ \E p \in {1} : transfer_update_to(p)

SpecLedger == InitFunded /\ [][NextLedger]_vars

----------------------------------------------------------------------------
\* Claims about the ledger.

\* The balance a store holds for an id; 0 for an id it does not hold.
BalanceOf(st, id) == IF id \in DOMAIN st THEN st[id].balance ELSE 0

\* The sum of the balances of a store.
TotalOf(st) == BalanceOf(st, 1) + BalanceOf(st, 2) + BalanceOf(st, 3)

\* C22: withdraw(id, amount) on an existing account succeeds if and only if
\* the balance is at least amount (the exact balance can be withdrawn and
\* leaves 0), and then returns and stores balance - amount; when the balance
\* is less than amount it fails with InsufficientFunds, answered with HTTP
\* 400, and the store is as it was.
C22_WithdrawFunds ==
    (Quiet /\ bank_last.op = "withdraw" /\ bank_last.id \in DOMAIN bank_last.before) =>
        LET held == bank_last.before[bank_last.id] IN
        IF held.balance >= bank_last.amount
        THEN /\ bank_last.result =
                    OkAccount([held EXCEPT !.balance = held.balance - bank_last.amount])
             /\ account_storage =
                    [bank_last.before EXCEPT ![bank_last.id].balance = held.balance - bank_last.amount]
        ELSE /\ bank_last.result = Err(DomainError("InsufficientFunds", ""))
             /\ status_code(BankError_from(bank_last.result.err)) = 400
             /\ account_storage = bank_last.before

\* A withdrawal of the exact balance, more than nothing, returned Ok and left
\* 0.
C22_Witness ==
    /\ Quiet
    /\ bank_last.op = "withdraw"
    /\ bank_last.result.tag = "account"
    /\ bank_last.amount > 0
    /\ bank_last.before[bank_last.id].balance = bank_last.amount
    /\ account_storage[bank_last.id].balance = 0

\* C23: with the operations run one after another, an account that only
\* deposits and withdrawals touched holds its opening balance plus the
\* amounts deposited minus the amounts withdrawn, and the deposit or
\* withdrawal that returned last returned the account with that balance.
C23_LedgerArithmetic ==
    Quiet =>
        \A id \in DOMAIN account_storage :
            (ledger.transfers_in[id] = 0 /\ ledger.transfers_out[id] = 0 /\ "transfer" \notin ledger.kinds) =>
                /\ account_storage[id].balance =
                       ledger.opening[id] + ledger.deposits[id] - ledger.withdrawals[id]
                /\ (bank_last.op \in {"deposit", "withdraw"} /\ bank_last.id = id
                        /\ bank_last.result.tag = "account") =>
                       bank_last.result.account.balance =
                           ledger.opening[id] + ledger.deposits[id] - ledger.withdrawals[id]

\* C24: a transfer that returned Ok, with no other operation interleaved,
\* took amount from the source, added amount to the destination, left every
\* other account as it was and left the sum of the balances as it was.
C24_TransferFrame ==
    (Quiet /\ bank_last.op = "transfer" /\ bank_last.result = OkUnit) =>
        LET before == bank_last.before
            from == bank_last.id
            to == bank_last.to
        IN /\ DOMAIN account_storage = DOMAIN before
           /\ account_storage[from].balance = before[from].balance - bank_last.amount
           /\ account_storage[to].balance = before[to].balance + bank_last.amount
           /\ \A i \in DOMAIN before \ {from, to} : account_storage[i] = before[i]
           /\ TotalOf(account_storage) = TotalOf(before)

\* The error a transfer is to fail with on a store, "none" if it is to
\* succeed.
TransferRefusal(before, from, to, amount) ==
    IF from = to THEN "InvalidAmount"
    ELSE IF from \notin DOMAIN before \/ to \notin DOMAIN before THEN "AccountNotFound"
    ELSE IF before[from].balance < amount THEN "InsufficientFunds"
    ELSE "none"

\* C25: a transfer to the same account fails with InvalidAmount (HTTP 400),
\* one whose source or destination is missing with AccountNotFound (HTTP
\* 404), one whose source holds less than amount with InsufficientFunds
\* (HTTP 400); a transfer that failed changed no balance and created no
\* account.
C25_FailedTransfer ==
    (Quiet /\ bank_last.op = "transfer") =>
        LET refusal == TransferRefusal(bank_last.before, bank_last.id, bank_last.to, bank_last.amount)
        IN /\ refusal # "none" =>
                  /\ bank_last.result = Err(DomainError(refusal, ""))
                  /\ status_code(BankError_from(bank_last.result.err)) =
                         IF refusal = "AccountNotFound" THEN 404 ELSE 400
           /\ bank_last.result.tag = "err" => account_storage = bank_last.before

\* A transfer between two stored accounts failed for lack of funds, the last
\* of the checks.
C25_Witness ==
    /\ Quiet
    /\ bank_last.op = "transfer"
    /\ bank_last.id # bank_last.to
    /\ {bank_last.id, bank_last.to} \subseteq DOMAIN bank_last.before
    /\ bank_last.result = Err(DomainError("InsufficientFunds", ""))
    /\ account_storage = bank_last.before

\* C26: create_account returns a new account with balance 0 whose id no
\* account created before has, and leaves every account created before as it
\* was.
C26_FreshAccountId ==
    (Quiet /\ bank_last.op = "create_account") =>
        /\ bank_last.result.account.balance = 0
        /\ bank_last.id \notin DOMAIN bank_last.before
        /\ \A i \in DOMAIN bank_last.before : account_storage[i] = bank_last.before[i]

\* C27: once concurrent deposits to an account have all returned, the
\* account holds its opening balance plus the amounts deposited: no deposit
\* is lost. Stated of the runs in which only deposits were made and no sum
\* overflowed.
C27_NoLostDeposits ==
    (Quiet /\ ledger.kinds \subseteq {"deposit"} /\ ~ledger.overflowed) =>
        \A id \in DOMAIN account_storage :
            account_storage[id].balance = ledger.opening[id] + ledger.deposits[id]

\* C28: at every moment the amounts withdrawn and transferred out of an
\* account by operations that returned Ok are at most its opening balance
\* plus the amounts credited to it: no overdraft.
C28_NoOverdraft ==
    \A id \in DOMAIN account_storage :
        ledger.withdrawals[id] + ledger.transfers_out[id] <=
            ledger.opening[id] + ledger.deposits[id] + ledger.transfers_in[id]

\* C29: once every concurrent transfer, deposit and withdrawal has returned,
\* the sum of the balances is the sum of the opening balances plus the
\* amounts deposited minus the amounts withdrawn. Stated of the runs in
\* which no sum overflowed.
C29_FundsConserved ==
    (Quiet /\ ~ledger.overflowed) =>
        TotalOf(account_storage) =
            ledger.opening[1] + ledger.opening[2] + ledger.opening[3]
            + ledger.deposits[1] + ledger.deposits[2] + ledger.deposits[3]
            - ledger.withdrawals[1] - ledger.withdrawals[2] - ledger.withdrawals[3]

\* C30: a deposit that returned Ok, and the credit of a transfer that
\* returned Ok, stored a balance no smaller than the balance it read: the
\* sum never wraps around.
C30_CreditsNeverWrap ==
    Quiet =>
        /\ (bank_last.op = "deposit" /\ bank_last.result.tag = "account") =>
               /\ bank_last.result.account.balance >= bank_last.read.val.balance
               /\ account_storage[bank_last.id].balance >= bank_last.read.val.balance
        /\ (bank_last.op = "transfer" /\ bank_last.result = OkUnit) =>
               account_storage[bank_last.to].balance >= bank_last.read_to.val.balance

----------------------------------------------------------------------------
\* data/memory.rs: InMemoryAccountRepository behind its RwLock

\* Mutant of can_read: the read guard is granted while a write guard is
\* held.
can_read_unguarded(lock) == TRUE

\* RwLock::read: granted while no task holds the write guard.
can_read(lock) == lock.writer = 0

\* RwLock::write: granted while no task holds any guard.
can_write(lock) == lock.writer = 0 /\ lock.readers = {}

StoreFrame ==
    UNCHANGED <<jwt_secret, now, storage, pc, pending, last, reg_log, gate, prev_rejection, tok, vres, issues, probe, hashed, verified, failure, repo_last, repo_found, account_storage, bank_pc, ledger, bank_last>>

\* The accounts that the save / update calls in flight for an id carry.
InFlightWrites(id) ==
    {store_pc[q].account.val : q \in {r \in Procs : store_pc[r].op = "write"
                                                     /\ store_pc[r].id = id}}

\* save or update is called (the two have the same body): the task waits for
\* the write guard. Every find_by_id in flight for the id has this write
\* overlap it.
write_call(p, account) ==
    /\ store_pc[p] = NoStoreTask
    /\ store_pc' = [q \in Procs |->
                      IF q = p
                      THEN [NoStoreTask EXCEPT !.op = "write", !.at = "lock", !.id = account.id,
                                               !.account = Some(account)]
                      ELSE IF store_pc[q].op = "find_by_id" /\ store_pc[q].id = account.id
                      THEN [store_pc[q] EXCEPT !.during = @ \cup {account}]
                      ELSE store_pc[q]]
    /\ UNCHANGED <<cells, rwlock, store_log>>
    /\ StoreFrame

\* save / update: self.storage.write().await
write_lock(p) ==
    /\ store_pc[p].op = "write"
    /\ store_pc[p].at = "lock"
    /\ can_write(rwlock)
    /\ rwlock' = [rwlock EXCEPT !.writer = p]
    /\ store_pc' = [store_pc EXCEPT ![p].at = "insert_name"]
    /\ UNCHANGED <<cells, store_log>>
    /\ StoreFrame

\* storage.insert(account.id, account): the slot's name is written.
insert_name(p) ==
    /\ store_pc[p].op = "write"
    /\ store_pc[p].at = "insert_name"
    /\ LET account == store_pc[p].account.val IN
       cells' = IF account.id \in DOMAIN cells
                THEN [cells EXCEPT ![account.id].name = account.name]
                ELSE [i \in DOMAIN cells \cup {account.id} |->
                        IF i = account.id
                        THEN [id |-> account.id, name |-> account.name, balance |-> Unwritten]
                        ELSE cells[i]]
    /\ store_pc' = [store_pc EXCEPT ![p].at = "insert_balance"]
    /\ UNCHANGED <<rwlock, store_log>>
    /\ StoreFrame

\* storage.insert(account.id, account): the slot's balance is written.
insert_balance(p) ==
    /\ store_pc[p].op = "write"
    /\ store_pc[p].at = "insert_balance"
    /\ cells' = [cells EXCEPT ![store_pc[p].id].balance = store_pc[p].account.val.balance]
    /\ store_pc' = [store_pc EXCEPT ![p].at = "unlock"]
    /\ UNCHANGED <<rwlock, store_log>>
    /\ StoreFrame

\* save / update: the write guard is dropped, Ok(()).
write_unlock(p) ==
    /\ store_pc[p].op = "write"
    /\ store_pc[p].at = "unlock"
    /\ rwlock' = [rwlock EXCEPT !.writer = 0]
    /\ store_log' = [store_log EXCEPT !.committed[store_pc[p].id] = store_pc[p].account]
    /\ store_pc' = [store_pc EXCEPT ![p] = NoStoreTask]
    /\ UNCHANGED cells
    /\ StoreFrame

\* find_by_id is called: the task waits for the read guard. The call knows
\* the account of the last write that returned and the writes in flight.
find_call(p, id) ==
    /\ store_pc[p] = NoStoreTask
    /\ store_pc' = [store_pc EXCEPT ![p] =
                       [NoStoreTask EXCEPT !.op = "find_by_id", !.at = "lock", !.id = id,
                                           !.before = store_log.committed[id],
                                           !.during = InFlightWrites(id)]]
    /\ UNCHANGED <<cells, rwlock, store_log>>
    /\ StoreFrame

\* find_by_id: self.storage.read().await
read_lock(p) ==
    /\ store_pc[p].op = "find_by_id"
    /\ store_pc[p].at = "lock"
    /\ can_read(rwlock)
    /\ rwlock' = [rwlock EXCEPT !.readers = @ \cup {p}]
    /\ store_pc' = [store_pc EXCEPT ![p].at = "get_name"]
    /\ UNCHANGED <<cells, store_log>>
    /\ StoreFrame

\* storage.get(&id).cloned(): the lookup, and the name of the slot is copied.
get_name(p) ==
    /\ store_pc[p].op = "find_by_id"
    /\ store_pc[p].at = "get_name"
    /\ store_pc' = [store_pc EXCEPT ![p] =
                       IF store_pc[p].id \in DOMAIN cells
                       THEN [@ EXCEPT !.at = "get_balance", !.name = cells[store_pc[p].id].name]
                       ELSE [@ EXCEPT !.at = "unlock", !.result = None]]
    /\ UNCHANGED <<cells, rwlock, store_log>>
    /\ StoreFrame

\* storage.get(&id).cloned(): the balance of the slot is copied; a balance
\* not written yet reads as any value.
get_balance(p) ==
    /\ store_pc[p].op = "find_by_id"
    /\ store_pc[p].at = "get_balance"
    /\ \E balance \in IF cells[store_pc[p].id].balance = Unwritten
                      THEN {a.balance : a \in StoreAccounts}
                      ELSE {cells[store_pc[p].id].balance} :
         store_pc' = [store_pc EXCEPT ![p].at = "unlock",
                                      ![p].result = Some([id |-> store_pc[p].id,
                                                          name |-> store_pc[p].name,
                                                          balance |-> balance])]
    /\ UNCHANGED <<cells, rwlock, store_log>>
    /\ StoreFrame

\* find_by_id: the read guard is dropped, Ok(account).
read_unlock(p) ==
    /\ store_pc[p].op = "find_by_id"
    /\ store_pc[p].at = "unlock"
    /\ rwlock' = [rwlock EXCEPT !.readers = @ \ {p}]
    /\ store_pc' = [store_pc EXCEPT ![p] = NoStoreTask]
    /\ UNCHANGED <<cells, store_log>>
    /\ StoreFrame

\* SpecStore: tasks call save, update and find_by_id of the account
\* repository concurrently.
NextStore ==
    \/ \E p \in Procs, account \in StoreAccounts : write_call(p, account)
    \/ \E p \in Procs : write_lock(p)
    \/ \E p \in Procs : insert_name(p)
    \/ \E p \in Procs : insert_balance(p)
    \/ \E p \in Procs : write_unlock(p)
    \/ \E p \in Procs, id \in StoreKeys : find_call(p, id)
    \/ \E p \in Procs : read_lock(p)
    \/ \E p \in Procs : get_name(p)
    \/ \E p \in Procs : get_balance(p)
    \/ \E p \in Procs : read_unlock(p)

SpecStore == Init /\ [][NextStore]_vars

\* C21: a find_by_id concurrent with a save or update returns the whole
\* record as it was before the write or as it is after it, never a mixture
\* of their fields and never a half-written record; and once no save or
\* update for a key is in flight the key holds, whole, the account of the
\* last one that returned, so that saves to distinct keys are all present
\* once they have completed.
C21_StoreOperationsAtomic ==
    /\ \A p \in Procs :
           (store_pc[p].op = "find_by_id" /\ store_pc[p].at = "unlock") =>
               store_pc[p].result \in
                   {store_pc[p].before} \cup {Some(a) : a \in store_pc[p].during}
    /\ \A id \in StoreKeys :
           InFlightWrites(id) = {} =>
               (IF id \in DOMAIN cells THEN Some(cells[id]) ELSE None) = store_log.committed[id]

\* A find_by_id that a write to its key overlapped is returning the record of
\* that write, not the one stored when it was called, while a save to the
\* other key has returned.
C21_Witness ==
    \E p \in Procs :
        /\ store_pc[p].op = "find_by_id"
        /\ store_pc[p].at = "unlock"
        /\ store_pc[p].before # None
        /\ store_pc[p].result # store_pc[p].before
        /\ store_pc[p].result \in {Some(a) : a \in store_pc[p].during}
        /\ \A id \in StoreKeys \ {store_pc[p].id} : store_log.committed[id] # None

====
